---- MODULE Spec2Model ----
(***************************************************************************)
(* A model of vhap/util/log.py: the logger factory get_logger with its     *)
(* ColorFormatter, and the context manager tqdm_joblib that patches        *)
(* joblib.parallel.BatchCompletionCallBack for the duration of a block.    *)
(*                                                                         *)
(* Strings are sequences of tokens, so that concatenation and the          *)
(* %-substitution of the logging format are computed rather than assumed.  *)
(***************************************************************************)
EXTENDS Integers, Sequences, FiniteSets, TLC

(***************************************************************************)
(* Bounds of the model.                                                    *)
(***************************************************************************)
MaxCalls == 2        \* get_logger calls in one run of the process
MaxScopes == 2       \* tqdm_joblib scopes entered in one run
MaxBatches == 2      \* batch-completion callbacks joblib creates in one run

(***************************************************************************)
(* The standard logging levels the source names.                           *)
(***************************************************************************)
NOTSET == 0
DEBUG == 10
INFO == 20
WARNING == 30
ERROR == 40
CRITICAL == 50

Levels == {DEBUG, INFO, WARNING, ERROR, CRITICAL}

\* the values the level argument of get_logger is drawn from
LevelArgs == {DEBUG, WARNING}

(***************************************************************************)
(* The logger hierarchy: the root logger, a named logger and a child of    *)
(* it.  get_logger is called with the two names; the root logger and       *)
(* "vhap" are the ancestors a sentinel sink can be attached to.            *)
(***************************************************************************)
RootLogger == "root"
Names == {"vhap", "vhap.util"}
Loggers == Names \cup {RootLogger}

Parent(n) == IF n = "vhap.util" THEN "vhap" ELSE RootLogger

None == "None"
Dirs == {"logs"}
Messages == {"msg"}
DirMessage == "Logging directory logs does not exist and will be created"

VARIABLES
    logger,      \* logging's registry: name -> [level, propagate, handlers]
    streams,     \* the file streams opened so far: [dir, closed, closes]
    atexit,      \* the registered exit hooks, each the close of a stream
    dirExists,   \* log directory -> whether it exists on disk
    phase,       \* "running", or "exited" after normal termination
    ncalls,      \* number of get_logger calls made
    lastCall,    \* arguments and outcome of the latest get_logger call
    count,       \* name -> number of root calls by outcome
    lastEmit     \* delivery of the latest record emitted since the
                 \* configuration last changed

logvars == <<logger, streams, atexit, dirExists, phase, ncalls, lastCall,
             count, lastEmit>>

VARIABLES
    BatchCompletionCallBack,  \* the global joblib.parallel.BatchCompletionCallBack
    pc,                       \* scope -> position in tqdm_joblib
    base,                     \* scope -> superclass of its TqdmBatchCompletionCallback
    old_batch_callback,       \* scope -> the local of that name
    raised,                   \* scope -> whether the wrapped block raised
    outcome,                  \* scope -> what the with statement gave its caller
    tqdm_object,              \* scope -> what its progress indicator has seen:
                              \* update calls and their total n, close calls,
                              \* whether close raised, and whether line 106 had
                              \* run when close was called
    callbacks,                \* the callback objects of the batches in flight
    dispatched                \* number of batches joblib has dispatched

tqvars == <<BatchCompletionCallBack, pc, base, old_batch_callback, raised,
            outcome, tqdm_object, callbacks, dispatched>>

vars == <<logvars, tqvars>>

(***************************************************************************)
(* _colored and ColorFormatter                                             *)
(***************************************************************************)
colors(color) ==
    CASE color = "red" -> "ESC[91m"
      [] color = "green" -> "ESC[92m"
      [] color = "yellow" -> "ESC[93m"
      [] color = "normal" -> "ESC[0m"

_colored(msg, color) == <<colors(color)>> \o msg \o <<colors("normal")>>

\* the format string handed to ColorFormatter by get_logger
ConsoleFmt ==
    _colored(<<"[", "%(asctime)s", " ", "%(name)s", "]: ">>, "green")
        \o <<"%(message)s">>

\* the format string of the file sink
FileFmt ==
    <<"[", "%(asctime)s", "] ", "%(name)s", " ", "%(levelname)s", ": ",
      "%(message)s">>

getLevelName(levelno) ==
    CASE levelno = DEBUG -> "DEBUG"
      [] levelno = INFO -> "INFO"
      [] levelno = WARNING -> "WARNING"
      [] levelno = ERROR -> "ERROR"
      [] levelno = CRITICAL -> "CRITICAL"

\* logging.Formatter.formatMessage: fmt % record.__dict__
PercentStyle(fmt, record) ==
    [i \in 1..Len(fmt) |->
        CASE fmt[i] = "%(asctime)s" -> record.asctime
          [] fmt[i] = "%(name)s" -> record.name
          [] fmt[i] = "%(levelname)s" -> getLevelName(record.levelno)
          [] fmt[i] = "%(message)s" -> record.message
          [] OTHER -> fmt[i]]

\* a variant that tags ERROR records only
formatMessageErrorOnly(record) ==
    LET log == PercentStyle(ConsoleFmt, record) IN
    IF record.levelno = WARNING
    THEN _colored(<<"WARNING">>, "yellow") \o <<" ">> \o log
    ELSE IF record.levelno = ERROR
    THEN _colored(<<"ERROR">>, "red") \o <<" ">> \o log
    ELSE log

formatMessage(record) ==
    LET log == PercentStyle(ConsoleFmt, record) IN
    IF record.levelno = WARNING
    THEN _colored(<<"WARNING">>, "yellow") \o <<" ">> \o log
    ELSE IF record.levelno = ERROR \/ record.levelno = CRITICAL
    THEN _colored(<<"ERROR">>, "red") \o <<" ">> \o log
    ELSE log

fileFormat(record) == PercentStyle(FileFmt, record)

Record(name, levelno, message) ==
    [name |-> name, levelno |-> levelno, message |-> message,
     asctime |-> "MM/DD HH:MM:SS"]

(***************************************************************************)
(* Emission of a record, as logging.Logger does it.                        *)
(***************************************************************************)
RECURSIVE getEffectiveLevel(_, _)
getEffectiveLevel(lg, n) ==
    IF lg[n].level # NOTSET THEN lg[n].level
    ELSE IF n = RootLogger THEN NOTSET
    ELSE getEffectiveLevel(lg, Parent(n))

isEnabledFor(lg, n, levelno) == levelno >= getEffectiveLevel(lg, n)

\* the handlers of logger c that take the record
Taking(lg, c, levelno) ==
    {i \in 1..Len(lg[c].handlers) : levelno >= lg[c].handlers[i].level}

\* Logger.callHandlers: the <<logger, handler index>> pairs the record is
\* handed to, walking up while propagate is set
RECURSIVE callHandlers(_, _, _)
callHandlers(lg, c, levelno) ==
    {<<c, i>> : i \in Taking(lg, c, levelno)}
        \cup (IF lg[c].propagate /\ c # RootLogger
              THEN callHandlers(lg, Parent(c), levelno)
              ELSE {})

NoEmit ==
    [name |-> None, levelno |-> NOTSET, message |-> None, rooted |-> FALSE,
     console |-> 0,
     line |-> <<>>, files |-> {}, fileLine |-> <<>>, closedFiles |-> {},
     sentinels |-> {}]

HasConsole(lg, n) ==
    \E i \in 1..Len(lg[n].handlers) : lg[n].handlers[i].kind = "console"

\* what one call of logger.log(levelno, message) on n is delivered to
Deliver(lg, st, n, levelno, message) ==
    IF ~isEnabledFor(lg, n, levelno) THEN
        [NoEmit EXCEPT !.name = n, !.levelno = levelno, !.message = message,
                       !.rooted = HasConsole(lg, n)]
    ELSE
    LET got == callHandlers(lg, n, levelno)
        kindOf(p) == lg[p[1]].handlers[p[2]].kind
        streamOf(p) == lg[p[1]].handlers[p[2]].stream
        cons == {p \in got : kindOf(p) = "console"}
        fil == {p \in got : kindOf(p) = "file"}
        rec == Record(n, levelno, message)
    IN  [name |-> n, levelno |-> levelno, message |-> message,
         rooted |-> HasConsole(lg, n),
         console |-> Cardinality(cons),
         line |-> IF cons = {} THEN <<>> ELSE formatMessage(rec),
         files |-> {streamOf(p) : p \in {q \in fil : ~st[streamOf(q)].closed}},
         fileLine |-> IF fil = {} THEN <<>> ELSE fileFormat(rec),
         closedFiles |-> {streamOf(p) : p \in {q \in fil : st[streamOf(q)].closed}},
         sentinels |-> {p[1] : p \in {q \in got : kindOf(q) = "sentinel"}}]

(***************************************************************************)
(* get_logger                                                              *)
(***************************************************************************)
StreamHandler(kind, level, stream) ==
    [kind |-> kind, level |-> level, stream |-> stream]

setLevel(lg, n, level) == [lg EXCEPT ![n].level = level]

\* a variant that keeps one handler of each kind
addHandlerOncePerKind(lg, n, h) ==
    IF \E i \in 1..Len(lg[n].handlers) : lg[n].handlers[i].kind = h.kind
    THEN lg
    ELSE [lg EXCEPT ![n].handlers = Append(@, h)]

addHandler(lg, n, h) == [lg EXCEPT ![n].handlers = Append(@, h)]

\* a variant without line 68
ConfigureConsolePropagating(lg, n, level) ==
    addHandler(lg, n, StreamHandler("console", level, 0))

\* lines 62-68: the console sink, then propagate = False
ConfigureConsole(lg, n, level) ==
    [addHandler(lg, n, StreamHandler("console", level, 0))
        EXCEPT ![n].propagate = FALSE]

\* line 80: log_file.open(mode="w")
OpenStream(st, dir) == Append(st, [dir |-> dir, closed |-> FALSE, closes |-> 0])

\* a variant that keeps the latest hook only
RegisterLatestOnly(hooks, stream) == <<stream>>

\* line 81: atexit.register(stream.close)
Register(hooks, stream) == Append(hooks, stream)

\* a variant that attaches the file sink twice
ConfigureFileTwice(lg, n, level, stream) ==
    addHandler(addHandler(lg, n, StreamHandler("file", level, stream)),
               n, StreamHandler("file", level, stream))

\* lines 83-88: the file sink on the stream just opened
ConfigureFile(lg, n, level, stream) ==
    addHandler(lg, n, StreamHandler("file", level, stream))

Bump(c, n, field) == [c EXCEPT ![n][field] = @ + 1]

Called(name, level, root, log_dir, mkdir, result) ==
    [name |-> name, level |-> level, root |-> root, log_dir |-> log_dir,
     mkdir |-> mkdir, result |-> result]

\* a variant that configures the console sink whatever root is
GetLoggerPlainConfigures(name, level, log_dir) ==
    /\ logger' = ConfigureConsole(setLevel(logger, name, level), name, level)
    /\ lastCall' = Called(name, level, FALSE, log_dir, "not called", "returned")
    /\ lastEmit' = NoEmit
    /\ UNCHANGED <<streams, atexit, dirExists, count>>

\* root=False: lines 57-58 and 90
GetLoggerPlain(name, level, log_dir) ==
    /\ logger' = setLevel(logger, name, level)
    /\ lastCall' = Called(name, level, FALSE, log_dir, "not called", "returned")
    /\ lastEmit' = NoEmit
    /\ UNCHANGED <<streams, atexit, dirExists, count>>

\* root=True, log_dir=None: lines 57-70 and 90
GetLoggerConsole(name, level) ==
    /\ logger' = ConfigureConsole(setLevel(logger, name, level), name, level)
    /\ lastCall' = Called(name, level, TRUE, None, "not called", "returned")
    /\ count' = Bump(count, name, "returned")
    /\ lastEmit' = NoEmit
    /\ UNCHANGED <<streams, atexit, dirExists>>

\* a variant that swallows the failure of mkdir
MkdirErrorSwallowed(missing, mkdirOk) == FALSE

\* lines 73-75: mkdir is called when the directory is missing, and its
\* failure is not caught
MkdirRaises(missing, mkdirOk) == missing /\ ~mkdirOk

\* root=True with a log_dir: lines 57-90.  mkdirOk and openOk are the
\* outcomes of log_dir.mkdir and log_file.open when they are reached.
GetLoggerFile(name, level, log_dir, mkdirOk, openOk) ==
    LET lg == ConfigureConsole(setLevel(logger, name, level), name, level)
        missing == ~dirExists[log_dir]
        mkdir == IF ~missing THEN "not called"
                 ELSE IF mkdirOk THEN "returned" ELSE "raised"
        stream == Len(streams) + 1
    IN
    /\ missing \/ mkdirOk
    /\ (missing /\ ~mkdirOk) => openOk
    /\ lastEmit' = IF missing
                   THEN Deliver(lg, streams, name, INFO, DirMessage)
                   ELSE NoEmit
    /\ IF MkdirRaises(missing, mkdirOk) THEN
            /\ logger' = lg
            /\ lastCall' = Called(name, level, TRUE, log_dir, mkdir,
                                  "mkdir raised")
            /\ count' = Bump(count, name, "raised")
            /\ UNCHANGED <<streams, atexit, dirExists>>
       ELSE IF ~openOk THEN
            /\ logger' = lg
            /\ dirExists' = [dirExists EXCEPT ![log_dir] = TRUE]
            /\ lastCall' = Called(name, level, TRUE, log_dir, mkdir,
                                  "open raised")
            /\ count' = Bump(count, name, "raised")
            /\ UNCHANGED <<streams, atexit>>
       ELSE
            /\ dirExists' = [dirExists EXCEPT ![log_dir] = TRUE]
            /\ streams' = OpenStream(streams, log_dir)
            /\ atexit' = Register(atexit, stream)
            /\ logger' = ConfigureFile(lg, name, level, stream)
            /\ lastCall' = Called(name, level, TRUE, log_dir, mkdir,
                                  "returned")
            /\ count' = Bump(Bump(count, name, "returned"), name, "files")

get_logger(name, level, root, log_dir, mkdirOk, openOk) ==
    /\ phase = "running"
    /\ ncalls < MaxCalls
    /\ ncalls' = ncalls + 1
    /\ UNCHANGED <<phase, tqvars>>
    /\ IF ~root THEN mkdirOk /\ openOk /\ GetLoggerPlain(name, level, log_dir)
       ELSE IF log_dir = None
            THEN mkdirOk /\ openOk /\ GetLoggerConsole(name, level)
            ELSE GetLoggerFile(name, level, log_dir, mkdirOk, openOk)

(***************************************************************************)
(* The callers of the module: code that logs, a test that attaches a       *)
(* sentinel sink to an ancestor, and the end of the process.               *)
(***************************************************************************)
\* logger.log(levelno, message) on n by the code that uses the logger.  An
\* emission changes nothing but what is observed of it, so one such
\* emission is observed per configuration.
Emit(n, levelno, message) ==
    /\ phase = "running"
    /\ lastEmit.message \in {None, DirMessage}
    /\ lastEmit' = Deliver(logger, streams, n, levelno, message)
    /\ UNCHANGED <<logger, streams, atexit, dirExists, phase, ncalls,
                   lastCall, count, tqvars>>

HasSentinel(lg, n) ==
    \E i \in 1..Len(lg[n].handlers) : lg[n].handlers[i].kind = "sentinel"

AttachSentinel(a) ==
    /\ phase = "running"
    /\ ~HasSentinel(logger, a)
    /\ logger' = addHandler(logger, a, StreamHandler("sentinel", NOTSET, 0))
    /\ lastEmit' = NoEmit
    /\ UNCHANGED <<streams, atexit, dirExists, phase, ncalls, lastCall,
                   count, tqvars>>

\* stream.close()
close(st, stream) ==
    [st EXCEPT ![stream].closed = TRUE, ![stream].closes = @ + 1]

\* the interpreter runs the registered hooks, last registered first
RECURSIVE RunExitHooks(_, _)
RunExitHooks(st, hooks) ==
    IF hooks = <<>> THEN st
    ELSE RunExitHooks(close(st, hooks[Len(hooks)]),
                      SubSeq(hooks, 1, Len(hooks) - 1))

Exit ==
    /\ phase = "running"
    /\ phase' = "exited"
    /\ streams' = RunExitHooks(streams, atexit)
    /\ UNCHANGED <<logger, atexit, dirExists, ncalls, lastCall, count,
                   lastEmit, tqvars>>

LogInit ==
    /\ logger = [n \in Loggers |->
                    [level |-> IF n = RootLogger THEN WARNING ELSE NOTSET,
                     propagate |-> TRUE, handlers |-> <<>>]]
    /\ streams = <<>>
    /\ atexit = <<>>
    /\ dirExists \in [Dirs -> BOOLEAN]
    /\ phase = "running"
    /\ ncalls = 0
    /\ lastCall = Called(None, NOTSET, FALSE, None, "not called", "none")
    /\ count = [n \in Names |-> [returned |-> 0, raised |-> 0, files |-> 0]]
    /\ lastEmit = NoEmit

LogNext ==
    \/ \E name \in Names, level \in LevelArgs, root \in BOOLEAN,
          log_dir \in Dirs \cup {None}, mkdirOk \in BOOLEAN, openOk \in BOOLEAN :
            get_logger(name, level, root, log_dir, mkdirOk, openOk)
    \/ \E n \in Names, levelno \in Levels, message \in Messages :
            Emit(n, levelno, message)
    \/ \E a \in {RootLogger, "vhap"} : AttachSentinel(a)
    \/ Exit


(***************************************************************************)
(* tqdm_joblib                                                             *)
(*                                                                         *)
(* A class is named by a number: Original is joblib's own                  *)
(* BatchCompletionCallBack, and s is the TqdmBatchCompletionCallback that  *)
(* the scope s defines.  A scope gives up control where it calls out: at   *)
(* the yield to the wrapped block and at the call of close(); scopes and   *)
(* joblib's notifications interleave at those points.  Scopes are numbered *)
(* in the order in which they are entered.                                 *)
(***************************************************************************)
Original == 0
Unbound == -1

Scopes == 1..MaxScopes
Classes == {Original} \cup Scopes
BatchSizes == {1, 2}
Args == {"a1", "a2"}

\* lines 96-104, up to the yield: the class statement takes the global as
\* its base class, the global is saved and the replacement installed
Enter(s) ==
    /\ pc[s] = "idle"
    /\ \A t \in 1..(s - 1) : pc[t] # "idle"
    /\ base' = [base EXCEPT ![s] = BatchCompletionCallBack]
    /\ old_batch_callback' =
            [old_batch_callback EXCEPT ![s] = BatchCompletionCallBack]
    /\ BatchCompletionCallBack' = s
    /\ pc' = [pc EXCEPT ![s] = "body"]
    /\ UNCHANGED <<raised, outcome, tqdm_object, callbacks, dispatched,
                   logvars>>

\* a variant without line 106
RestoreSkipped(s, raises) ==
    /\ pc[s] = "body"
    /\ raised' = [raised EXCEPT ![s] = raises]
    /\ tqdm_object' = [tqdm_object EXCEPT ![s].restored = TRUE]
    /\ pc' = [pc EXCEPT ![s] = "closing"]
    /\ UNCHANGED <<BatchCompletionCallBack, base, old_batch_callback, outcome,
                   callbacks, dispatched, logvars>>

\* a variant that puts joblib's own class back instead of the saved one
RestoreOriginal(s, raises) ==
    /\ pc[s] = "body"
    /\ raised' = [raised EXCEPT ![s] = raises]
    /\ BatchCompletionCallBack' = Original
    /\ tqdm_object' = [tqdm_object EXCEPT ![s].restored = TRUE]
    /\ pc' = [pc EXCEPT ![s] = "closing"]
    /\ UNCHANGED <<base, old_batch_callback, outcome, callbacks, dispatched,
                   logvars>>

\* the wrapped block ends, normally or by raising, and line 106 runs
Restore(s, raises) ==
    /\ pc[s] = "body"
    /\ raised' = [raised EXCEPT ![s] = raises]
    /\ BatchCompletionCallBack' = old_batch_callback[s]
    /\ tqdm_object' = [tqdm_object EXCEPT ![s].restored = TRUE]
    /\ pc' = [pc EXCEPT ![s] = "closing"]
    /\ UNCHANGED <<base, old_batch_callback, outcome, callbacks, dispatched,
                   logvars>>

\* what leaves the with statement: an exception raised by close() replaces
\* the one in flight, otherwise the block's exception is re-raised
Leaves(block_raised, closeOk) ==
    IF ~closeOk THEN "close raised"
    ELSE IF block_raised THEN "block raised"
    ELSE "returned"

\* line 107: tqdm_object.close(), which returns or raises
Close(s, closeOk) ==
    /\ pc[s] = "closing"
    /\ tqdm_object' =
            [tqdm_object EXCEPT ![s].closes = @ + 1,
                                ![s].closedAfterRestore = tqdm_object[s].restored,
                                ![s].closeRaised = ~closeOk]
    /\ outcome' = [outcome EXCEPT ![s] = Leaves(raised[s], closeOk)]
    /\ pc' = [pc EXCEPT ![s] = "done"]
    /\ UNCHANGED <<BatchCompletionCallBack, base, old_batch_callback, raised,
                   callbacks, dispatched, logvars>>

\* joblib dispatches a batch: it instantiates whatever class the global
\* names at that moment (the inherited __init__ stores batch_size)
Dispatch(batch_size) ==
    /\ dispatched < MaxBatches
    /\ dispatched' = dispatched + 1
    /\ callbacks' = Append(callbacks,
            [cls |-> BatchCompletionCallBack, batch_size |-> batch_size])
    /\ UNCHANGED <<BatchCompletionCallBack, pc, base, old_batch_callback,
                   raised, outcome, tqdm_object, logvars>>

\* the result of joblib's own BatchCompletionCallBack.__call__
OriginalResult(args) == <<"BatchCompletionCallBack.__call__", args>>

\* a variant that calls update(n=1) whatever the batch size
RECURSIVE __call__UnitUpdate(_, _, _)
__call__UnitUpdate(cls, batch_size, args) ==
    IF cls = Original
    THEN [events |-> << <<"original", args>> >>, result |-> OriginalResult(args)]
    ELSE LET super == __call__UnitUpdate(base[cls], batch_size, args)
         IN  [events |-> << <<"update", cls, 1>> >> \o super.events,
              result |-> super.result]

\* lines 97-99: __call__ of an instance of class cls, as the calls it makes
\* in order: update on the indicator of the class's scope, then the
\* superclass's __call__ with the same arguments
RECURSIVE __call__(_, _, _)
__call__(cls, batch_size, args) ==
    IF cls = Original
    THEN [events |-> << <<"original", args>> >>, result |-> OriginalResult(args)]
    ELSE LET super == __call__(base[cls], batch_size, args)
         IN  [events |-> << <<"update", cls, batch_size>> >> \o super.events,
              result |-> super.result]

\* tqdm_object.update(n)
update(t, n) == [t EXCEPT !.updates = @ + 1, !.n = @ + n]

\* the indicators after the calls of a notification, made in order
RECURSIVE Perform(_, _)
Perform(objects, events) ==
    IF events = <<>> THEN objects
    ELSE LET e == Head(events)
         IN  Perform(IF e[1] = "update"
                     THEN [objects EXCEPT ![e[2]] = update(@, e[3])]
                     ELSE objects,
                     Tail(events))

Remove(seq, i) ==
    [k \in 1..(Len(seq) - 1) |-> IF k < i THEN seq[k] ELSE seq[k + 1]]

\* the batch of callback i completes and joblib calls the callback
Complete(i, args) ==
    /\ i \in 1..Len(callbacks)
    /\ tqdm_object' =
            Perform(tqdm_object,
                    __call__(callbacks[i].cls, callbacks[i].batch_size, args).events)
    /\ callbacks' = Remove(callbacks, i)
    /\ UNCHANGED <<BatchCompletionCallBack, pc, base, old_batch_callback,
                   raised, outcome, dispatched, logvars>>

TqdmInit ==
    /\ BatchCompletionCallBack = Original
    /\ pc = [s \in Scopes |-> "idle"]
    /\ base = [s \in Scopes |-> Unbound]
    /\ old_batch_callback = [s \in Scopes |-> Unbound]
    /\ raised = [s \in Scopes |-> FALSE]
    /\ outcome = [s \in Scopes |-> "none"]
    /\ tqdm_object = [s \in Scopes |->
            [updates |-> 0, n |-> 0, closes |-> 0, restored |-> FALSE,
             closedAfterRestore |-> FALSE, closeRaised |-> FALSE]]
    /\ callbacks = <<>>
    /\ dispatched = 0

\* the scopes alone: every way a block and close() can end
ScopeNext ==
    \/ \E s \in Scopes : Enter(s)
    \/ \E s \in Scopes, raises \in BOOLEAN : Restore(s, raises)
    \/ \E s \in Scopes, closeOk \in BOOLEAN : Close(s, closeOk)

\* the scopes with joblib's notifications; the blocks return and close()
\* returns, which is all the same to a notification
NotifyNext ==
    \/ \E s \in Scopes : Enter(s)
    \/ \E s \in Scopes : Restore(s, FALSE)
    \/ \E s \in Scopes : Close(s, TRUE)
    \/ \E batch_size \in BatchSizes : Dispatch(batch_size)
    \/ \E i \in 1..MaxBatches, args \in Args : Complete(i, args)

TqdmNext ==
    \/ ScopeNext
    \/ \E batch_size \in BatchSizes : Dispatch(batch_size)
    \/ \E i \in 1..MaxBatches, args \in Args : Complete(i, args)

(***************************************************************************)
(* The specifications.  The two halves of the module share no state, so    *)
(* each is checked on its own: LogSpec runs get_logger and its callers,    *)
(* ScopeSpec runs tqdm_joblib scopes, NotifySpec runs them with joblib's   *)
(* notifications.                                                          *)
(***************************************************************************)
Init == LogInit /\ TqdmInit

Next == LogNext \/ TqdmNext

Spec == Init /\ [][Next]_vars

LogSpec == Init /\ [][LogNext]_vars

\* the log directory plays no part in the scopes: it starts absent
ScopeInit == Init /\ \A d \in Dirs : ~dirExists[d]

ScopeSpec == ScopeInit /\ [][ScopeNext]_vars

NotifySpec == ScopeInit /\ [][NotifyNext]_vars

(***************************************************************************)
(* Properties of get_logger, checked under LogSpec.                        *)
(***************************************************************************)
NumKind(lg, n, kind) ==
    Cardinality({i \in 1..Len(lg[n].handlers) : lg[n].handlers[i].kind = kind})

Kinds(lg, n) == [i \in 1..Len(lg[n].handlers) |-> lg[n].handlers[i].kind]

\* the name has received at least one call with root=True
Rooted(n) == count[n].returned + count[n].raised > 0

\* the step is a call of get_logger
CallStep == ncalls' = ncalls + 1

\* C4: a logger name that has received a root=True call has propagation
\* disabled, whatever calls followed, and no record emitted on it, the
\* message get_logger itself emits included, reaches a sink of an ancestor.
C4_RootNeverPropagates ==
    /\ \A n \in Names : Rooted(n) => ~logger[n].propagate
    /\ \A n \in Names : Rooted(n) <=> HasConsole(logger, n)
    /\ lastEmit.rooted => lastEmit.sentinels \subseteq {lastEmit.name}

\* a record emitted on a root-configured logger, after a later root=False
\* call on it, reached its console sink while its parent holds a sentinel
C4_Witness ==
    /\ lastEmit.name \in Names
    /\ Rooted(lastEmit.name)
    /\ lastCall.name = lastEmit.name
    /\ ~lastCall.root
    /\ HasSentinel(logger, Parent(lastEmit.name))
    /\ lastEmit.console = 1
    /\ lastEmit.sentinels = {}

\* C5: on a name with no sinks beforehand, one successful root=True call
\* leaves exactly the console sink, or the console sink and the file sink
\* when log_dir was given; every root=True call attaches exactly one
\* console sink and at most one file sink, the file sink only with log_dir.
C5_SinksAfterOneCall ==
    \A n \in Names :
        (count[n].returned = 1 /\ count[n].raised = 0 /\ ~HasSentinel(logger, n))
            => Kinds(logger, n) = IF count[n].files = 0
                                  THEN <<"console">>
                                  ELSE <<"console", "file">>

C5_SinksPerCall ==
    (CallStep /\ lastCall'.root) =>
        LET n == lastCall'.name
            files == NumKind(logger', n, "file") - NumKind(logger, n, "file")
        IN  /\ NumKind(logger', n, "console") = NumKind(logger, n, "console") + 1
            /\ files \in {0, 1}
            /\ files = 1 <=> (lastCall'.log_dir # None /\ lastCall'.result = "returned")
            /\ Len(logger'[n].handlers) = Len(logger[n].handlers) + 1 + files

\* C5: every get_logger call with root=True attaches exactly one console
\* sink, and one file sink as well exactly when log_dir is given and the call
\* returns; a call with root=False attaches none.
C5_Sinks == []C5_SinksAfterOneCall /\ [][C5_SinksPerCall]_vars

C5_Witness ==
    \E n \in Names :
        /\ count[n] = [returned |-> 1, raised |-> 0, files |-> 1]
        /\ Kinds(logger, n) = <<"console", "file">>

\* C6: a call with root=False sets the threshold of the named logger to the
\* level of that call and changes nothing else: no sink, no propagation
\* flag, no directory, no file, no exit hook, log_dir given or not.
C6_PlainStep ==
    (CallStep /\ ~lastCall'.root) =>
        /\ lastCall'.result = "returned"
        /\ logger' = [logger EXCEPT ![lastCall'.name].level = lastCall'.level]
        /\ UNCHANGED <<streams, atexit, dirExists>>

\* C6: a get_logger call with root=False only sets the level of the named
\* logger: no sink, no stream, no directory, no exit hook, whatever log_dir.
C6_PlainCallSetsLevelOnly == [][C6_PlainStep]_vars

\* two root=False calls on one name, the last with a log_dir
C6_Witness ==
    \E n \in Names :
        /\ ncalls = 2
        /\ lastCall = Called(n, WARNING, FALSE, "logs", "not called", "returned")
        /\ logger[n] = [level |-> WARNING, propagate |-> TRUE, handlers |-> <<>>]
        /\ \A m \in Names \ {n} : logger[m].level = NOTSET
        /\ streams = <<>> /\ atexit = <<>>
        /\ \A d \in Dirs : ~dirExists[d]

\* the tag of a record's severity, and the green tag, as the console shows
SeverityTag(levelno) ==
    IF levelno = WARNING THEN <<"ESC[93m", "WARNING", "ESC[0m">>
    ELSE IF levelno \in {ERROR, CRITICAL} THEN <<"ESC[91m", "ERROR", "ESC[0m">>
    ELSE <<>>

GreenTag(name) ==
    <<"ESC[92m", "[", "MM/DD HH:MM:SS", " ", name, "]: ", "ESC[0m">>

\* C7 as stated: the green tag, then the severity tag, then the message.
C7_TagAfterGreen ==
    lastEmit.console > 0 =>
        lastEmit.line = GreenTag(lastEmit.name)
                            \o SeverityTag(lastEmit.levelno)
                            \o <<lastEmit.message>>

\* C7, amended: a console line is the severity tag and one space (for
\* WARNING, ERROR and CRITICAL records; nothing otherwise), then the green
\* tag with its reset, then the message: the severity tag comes first.
C7_TagBeforeGreen ==
    lastEmit.console > 0 =>
        lastEmit.line =
            (IF SeverityTag(lastEmit.levelno) = <<>> THEN <<>>
             ELSE SeverityTag(lastEmit.levelno) \o <<" ">>)
                \o GreenTag(lastEmit.name)
                \o <<lastEmit.message>>

C7_Witness ==
    /\ lastEmit.console > 0
    /\ lastEmit.levelno = CRITICAL
    /\ lastEmit.line[2] = "ERROR"

\* C8: every stream a call opens has one exit hook of its own, is open as
\* long as the process runs, so that every record written to a file sink
\* goes to an open stream, and has been closed exactly once when the
\* process has terminated normally.
C8_StreamsClosedOnceAtExit ==
    /\ Len(streams) = count["vhap"].files + count["vhap.util"].files
    /\ \A id \in 1..Len(streams) :
            Cardinality({k \in 1..Len(atexit) : atexit[k] = id}) = 1
    /\ \A k \in 1..Len(atexit) : atexit[k] \in 1..Len(streams)
    /\ phase = "running" =>
            \A id \in 1..Len(streams) :
                ~streams[id].closed /\ streams[id].closes = 0
    /\ phase = "exited" =>
            \A id \in 1..Len(streams) :
                streams[id].closed /\ streams[id].closes = 1
    /\ lastEmit.closedFiles = {}

C8_Witness ==
    /\ phase = "exited"
    /\ Len(streams) = 2
    /\ lastEmit.files # {}

\* C9: when the directory is missing and mkdir fails, the call raises, and
\* what it leaves behind is what lines 57-68 did: the threshold, one more
\* console sink, propagation disabled; no stream, no file sink, no hook.
C9_FailedStep ==
    (CallStep /\ lastCall'.mkdir = "raised") =>
        LET n == lastCall'.name IN
        /\ lastCall'.result = "mkdir raised"
        /\ ~dirExists[lastCall'.log_dir]
        /\ logger' = [logger EXCEPT
                ![n] = [level |-> lastCall'.level,
                        propagate |-> FALSE,
                        handlers |-> Append(logger[n].handlers,
                            StreamHandler("console", lastCall'.level, 0))]]
        /\ UNCHANGED <<streams, atexit, dirExists>>

\* C9: when creating the log directory fails, get_logger raises; the level,
\* the console sink and propagate=False set before stay, and no stream is
\* opened, no hook registered, no file sink attached.
C9_MkdirFailurePropagates == [][C9_FailedStep]_vars

C9_Witness ==
    /\ lastCall.result = "mkdir raised"
    /\ Kinds(logger, lastCall.name) = <<"console">>
    /\ ~logger[lastCall.name].propagate
    /\ streams = <<>>

\* a threshold-passing record is written once by every console sink
PassesAll(n, levelno) ==
    /\ isEnabledFor(logger, n, levelno)
    /\ \A i \in 1..Len(logger[n].handlers) : levelno >= logger[n].handlers[i].level

\* C10: sinks accumulate: a name holds one console sink per root=True call
\* made on it (k after k successful calls and no failed one) and one file
\* sink per successful call with a log_dir, and a record that passes the
\* thresholds is written to the console once per console sink.
C10_SinksAccumulate ==
    /\ \A n \in Names :
        /\ NumKind(logger, n, "console") = count[n].returned + count[n].raised
        /\ NumKind(logger, n, "file") = count[n].files
    /\ (lastEmit.rooted /\ PassesAll(lastEmit.name, lastEmit.levelno)) =>
            lastEmit.console = count[lastEmit.name].returned
                                + count[lastEmit.name].raised

C10_Witness ==
    \E n \in Names :
        /\ count[n] = [returned |-> 2, raised |-> 0, files |-> 1]
        /\ lastEmit.name = n
        /\ lastEmit.console = 2
        /\ Cardinality(lastEmit.files) = 1

(***************************************************************************)
(* Properties of tqdm_joblib, checked under ScopeSpec and NotifySpec.      *)
(***************************************************************************)
\* no scope but s has been entered
Single(s) == \A t \in Scopes \ {s} : pc[t] = "idle"

EnterStep(s) == pc[s] = "idle" /\ pc'[s] = "body"

RestoreStep(s) == pc[s] = "body" /\ pc'[s] = "closing"

\* the global is saved at entry, and line 106 puts the saved value back
C1_SaveAndRestore ==
    \A s \in Scopes :
        /\ EnterStep(s) => old_batch_callback'[s] = BatchCompletionCallBack
        /\ RestoreStep(s) => BatchCompletionCallBack' = old_batch_callback[s]

\* close() is called once, after the restore, on both exit paths; nothing
\* leaves the with statement before that
C1_CleanupDone ==
    \A s \in Scopes :
        /\ tqdm_object[s].closes = IF pc[s] = "done" THEN 1 ELSE 0
        /\ pc[s] = "done" => tqdm_object[s].closedAfterRestore
        /\ pc[s] # "done" => outcome[s] = "none"
        /\ (Single(s) /\ pc[s] \in {"closing", "done"}) =>
                BatchCompletionCallBack = Original

\* C1 as stated: after the cleanup the block's exception reaches the caller.
C1_BlockExceptionReachesCaller ==
    /\ C1_CleanupDone
    /\ \A s \in Scopes :
            pc[s] = "done" =>
                outcome[s] = IF raised[s] THEN "block raised" ELSE "returned"

\* C1, amended: for a single scope the global after exit is the value it had
\* before entry, on both exit paths; close() is called exactly once and only
\* after the restore; the block's exception reaches the caller after that
\* cleanup provided close() returns, and when close() raises it is the
\* exception of close() that reaches the caller.
C1_AfterCleanup ==
    /\ C1_CleanupDone
    /\ \A s \in Scopes :
            pc[s] = "done" =>
                outcome[s] = IF tqdm_object[s].closeRaised THEN "close raised"
                             ELSE IF raised[s] THEN "block raised"
                             ELSE "returned"

\* C1, amended: on every exit path of a single scope the global is restored
\* to its value before entry and close() is called once, after the restore;
\* the block's exception reaches the caller unless close() raises, in which
\* case the exception of close() does.
C1_ScopeCleansUp == []C1_AfterCleanup /\ [][C1_SaveAndRestore]_vars

C1_Witness ==
    \E s \in Scopes :
        /\ Single(s)
        /\ pc[s] = "done"
        /\ raised[s]
        /\ outcome[s] = "block raised"
        /\ tqdm_object[s].closes = 1
        /\ old_batch_callback[s] = Original
        /\ BatchCompletionCallBack = Original

\* the scopes whose indicator a callback of class cls updates: that of the
\* class and those of its base classes
RECURSIVE Chain(_)
Chain(cls) == IF cls = Original THEN {} ELSE {cls} \cup Chain(base[cls])

\* the update calls among events that go to the indicator of scope s
UpdatesOf(events, s) ==
    {i \in 1..Len(events) : events[i][1] = "update" /\ events[i][2] = s}

\* every notification through a replacement calls update once with the
\* batch's size, first, then reaches the original __call__ with the same
\* arguments, whose result it returns
C2_UpdateThenForward ==
    \A i \in 1..Len(callbacks), args \in Args :
        LET cb == callbacks[i]
            run == __call__(cb.cls, cb.batch_size, args)
            last == Len(run.events)
        IN  /\ cb.cls # Original =>
                    /\ run.events[1] = <<"update", cb.cls, cb.batch_size>>
                    /\ Cardinality(UpdatesOf(run.events, cb.cls)) = 1
            /\ run.events[last] = <<"original", args>>
            /\ \A k \in 1..(last - 1) : run.events[k][1] = "update"
            /\ run.result = OriginalResult(args)

\* a completing batch adds one update call, of the batch's size, to the
\* indicator of every scope in the chain of the callback's class
C2_OneUpdatePerBatch ==
    Len(callbacks') < Len(callbacks) =>
        \E i \in 1..Len(callbacks) :
            /\ callbacks' = Remove(callbacks, i)
            /\ \A s \in Scopes :
                LET k == IF s \in Chain(callbacks[i].cls) THEN 1 ELSE 0
                IN  /\ tqdm_object'[s].updates = tqdm_object[s].updates + k
                    /\ tqdm_object'[s].n =
                            tqdm_object[s].n + k * callbacks[i].batch_size

\* no update reaches an indicator before its scope is entered or after the
\* scope has exited
C2_NoUpdateOutsideScope ==
    \A s \in Scopes :
        tqdm_object'[s].updates > tqdm_object[s].updates =>
            pc[s] \in {"body", "closing"}

\* C2 as stated: update once per notification, forwarded unchanged, and no
\* update by any notification outside the scope.
C2_UpdatesOnlyInsideScope ==
    /\ []C2_UpdateThenForward
    /\ [][C2_OneUpdatePerBatch /\ C2_NoUpdateOutsideScope]_vars

\* outside a single scope the global is the original class, so a callback
\* object created then updates nothing
C2_PlainOutsideScope ==
    \A s \in Scopes :
        (Single(s) /\ pc[s] # "body") =>
            /\ BatchCompletionCallBack = Original
            /\ Chain(BatchCompletionCallBack) = {}

\* C2, amended: every notification through a replacement calls update once
\* with the batch's size and then forwards to the original logic, returning
\* its result, so N batches of size 1 give N calls update(1); a callback
\* object created before a single scope is entered or after its restore
\* updates nothing, while one created inside the scope still calls update
\* when its batch completes after the exit.
C2_UpdatePerNotification ==
    /\ [](C2_UpdateThenForward /\ C2_PlainOutsideScope)
    /\ [][C2_OneUpdatePerBatch]_vars

\* two batches of size 1 dispatched in a single scope, both completed
C2_Witness ==
    /\ Single(1)
    /\ pc[1] = "done"
    /\ dispatched = 2
    /\ callbacks = <<>>
    /\ tqdm_object[1].updates = 2
    /\ tqdm_object[1].n = 2

\* C3: with A entered, then B, B's installation overwrites A's, and when A
\* exits before B the restore of B leaves the global at A's replacement,
\* not at the original class.
C3_Step ==
    \A a, b \in Scopes :
        a # b =>
            /\ (pc[a] = "body" /\ BatchCompletionCallBack = a /\ EnterStep(b)) =>
                    /\ BatchCompletionCallBack' = b
                    /\ old_batch_callback'[b] = a
            /\ (pc[a] \in {"closing", "done"} /\ old_batch_callback[b] = a
                    /\ RestoreStep(b)) =>
                    /\ BatchCompletionCallBack' = a
                    /\ BatchCompletionCallBack' # Original

\* C3: when scope B is entered inside scope A and A exits before B, the exit
\* of B leaves the global at A's replacement, not at the original.
C3_NonNestedExitLeavesPatch == [][C3_Step]_vars

\* both scopes have exited and the global is the replacement of the first
C3_Witness ==
    /\ pc[1] = "done" /\ pc[2] = "done"
    /\ old_batch_callback[1] = Original
    /\ old_batch_callback[2] = 1
    /\ BatchCompletionCallBack = 1

====
